---- MODULE Spec2Model ----
(***************************************************************************)
(* Model of src/app.py: one run of main() after the user has chosen the    *)
(* settings and pressed a button.  Times are counted in ticks of           *)
(* 1/TicksPerSecond seconds (the probed duration is a float), sizes in MiB *)
(* (5 * 1024 * 1024 * 1024 bytes = 5120 MiB, 5000 "MB" = 5000 MiB).        *)
(***************************************************************************)
EXTENDS Integers, Sequences, FiniteSets

(* ---- bounds of the model ---- *)
MaxSegs == 3
TicksPerSecond == 2
BatchMiB == 2048

(* ---- program constants ---- *)
SliderMin == 5
SliderDefault == 25
SizeLimit == 5 * 1024
ProcessLimitMB == 5000

ChunkMinutesChoices == {SliderMin, SliderDefault}
BodyChoices == {BatchMiB, ProcessLimitMB + 60, SizeLimit + 1024}

Min(a, b) == IF a < b THEN a ELSE b

(* math.ceil(duration / chunk_duration) for duration >= 0 *)
CeilOffByOne(a, b) == a \div b + 1
Ceil(a, b) == IF a % b = 0 THEN a \div b ELSE a \div b + 1

(* durations the probe may report for a chunk length c (in ticks); 0 stands *)
(* for None / 0.0, both falsy                                               *)
DurationChoices(c) ==
  {0, 1} \cup {t \in {k * c + d : k \in 1..MaxSegs, d \in {-1, 0, 1}} : t <= MaxSegs * c}

(* start_time = i * chunk_duration *)
SegmentStartShifted(i, c) == (i + 1) * c
SegmentStart(i, c) == i * c

(* '-t', str(chunk_duration) *)
FfmpegLength(c) == c

(* end_time = min((i + 1) * chunk_duration, total_duration) *)
MoviepyEnd(i, c, total) == Min((i + 1) * c, total)

(* outcomes of one external tool run / one library call *)
FfmpegOutcomes == {"ok", "rc0_nofile", "rc1_file", "rc1_nofile", "timeout"}
MoviepyOutcomes == {"ok", "nofile", "raise"}
Rc(o) == IF o \in {"rc1_file", "rc1_nofile"} THEN 1 ELSE 0
Exists(o) == o \in {"ok", "rc1_file", "timeout"}
Raises(o) == o \in {"timeout", "raise"}

(* result.returncode == 0 and os.path.exists(output_path) *)
FfmpegSuccessNoExistCheck(o) == Rc(o) = 0
FfmpegSuccess(o) == Rc(o) = 0 /\ Exists(o)

(* file_size > 5 * 1024 * 1024 * 1024 *)
TooLargeNever(file_size) == FALSE
TooLarge(file_size) == file_size > SizeLimit

VARIABLES
  pc,               \* position in main()
  ffmpeg_available, \* check_ffmpeg_availability()
  chunk_duration,   \* chunk_minutes * 60, in ticks
  source,           \* "upload" (uploaded_file) or "url" (video_url)
  button,           \* "analyze" or "split"
  body,             \* size of the uploaded bytes / of the HTTP body
  file_size,        \* advertised content-length (0 when absent)
  get_issued,       \* requests.get(url, stream=True) has been called
  downloaded,       \* bytes written by download_from_url
  dl_result,        \* "none", "ok", "too_large", "error"
  input_exists,     \* input_path exists on disk
  input_size,       \* its size
  temp_dir,         \* the TemporaryDirectory exists
  chunk_files,      \* indices of chunk files on disk (inside temp_dir)
  zip_file,         \* the ZIP archive exists in tempfile.gettempdir()
  duration,         \* probed duration in ticks (0: None)
  num_chunks,
  i,
  output_files,     \* indices (1-based) of the chunks recorded as successful
  calls,            \* the segments handed to the tool, in order
  split_returned,   \* the split function returned to main
  offered,          \* chunks for which a download button was rendered
  status,           \* how the run ended
  error             \* exception that left main unhandled

vars == <<pc, ffmpeg_available, chunk_duration, source, button, body, file_size,
          get_issued, downloaded, dl_result, input_exists, input_size, temp_dir,
          chunk_files, zip_file, duration, num_chunks, i, output_files, calls,
          split_returned, offered, status, error>>

settings == <<ffmpeg_available, chunk_duration, source, body>>
dlvars == <<file_size, get_issued, downloaded, dl_result>>
disk == <<input_exists, input_size, temp_dir, chunk_files, zip_file>>
splitvars == <<duration, num_chunks, i, output_files, calls, split_returned>>
endvars == <<offered, status, error>>

Init ==
  /\ pc = "start"
  /\ ffmpeg_available \in BOOLEAN
  /\ chunk_duration \in {m * 60 * TicksPerSecond : m \in ChunkMinutesChoices}
  /\ source \in {"upload", "url"}
  /\ body \in BodyChoices
  /\ button = "none"
  /\ file_size = 0 /\ get_issued = FALSE /\ downloaded = 0 /\ dl_result = "none"
  /\ input_exists = FALSE /\ input_size = 0 /\ temp_dir = FALSE
  /\ chunk_files = {} /\ zip_file = FALSE
  /\ duration = 0 /\ num_chunks = 0 /\ i = 0 /\ output_files = <<>> /\ calls = <<>>
  /\ split_returned = FALSE
  /\ offered = <<>> /\ status = "running" /\ error = "none"

(* leaving the `with tempfile.TemporaryDirectory()` block, by return, by   *)
(* falling off its end or by an exception                                  *)
LeaveTempDir ==
  /\ temp_dir' = FALSE
  /\ input_exists' = FALSE
  /\ input_size' = 0
  /\ chunk_files' = {}
  /\ UNCHANGED zip_file

(* st.button("Quick Analysis") pressed: the temporary directory is created *)
ClickAnalyze ==
  /\ pc = "start"
  /\ button' = "analyze"
  /\ temp_dir' = TRUE
  /\ pc' = "acquire"
  /\ UNCHANGED <<settings, dlvars, input_exists, input_size, chunk_files, zip_file,
                 splitvars, endvars>>

(* st.button("Split Video") pressed: the temporary directory is created *)
ClickSplit ==
  /\ pc = "start"
  /\ button' = "split"
  /\ temp_dir' = TRUE
  /\ pc' = "acquire"
  /\ UNCHANGED <<settings, dlvars, input_exists, input_size, chunk_files, zip_file,
                 splitvars, endvars>>

(* f.write(uploaded_file.getvalue()) *)
AcquireUpload ==
  /\ pc = "acquire" /\ source = "upload"
  /\ input_exists' = TRUE
  /\ input_size' = body
  /\ pc' = "acquired"
  /\ UNCHANGED <<settings, button, dlvars, temp_dir, chunk_files, zip_file,
                 splitvars, endvars>>

(* ---- download_from_url ---- *)

(* requests.head raises, or the header does not parse: return None, 0 *)
DlHeadFail ==
  /\ pc = "acquire" /\ source = "url"
  /\ dl_result' = "error"
  /\ pc' = "dl_returned"
  /\ UNCHANGED <<settings, button, file_size, get_issued, downloaded, disk,
                 splitvars, endvars>>

(* requests.head answers; the size guard *)
DlHead ==
  /\ pc = "acquire" /\ source = "url"
  /\ \E len \in {0, body, SizeLimit, SizeLimit + 1} :
       /\ file_size' = len
       /\ IF TooLarge(len)
            THEN dl_result' = "too_large" /\ pc' = "dl_returned"
            ELSE dl_result' = dl_result /\ pc' = "dl_get"
  /\ UNCHANGED <<settings, button, get_issued, downloaded, disk, splitvars, endvars>>

(* requests.get or raise_for_status raises *)
DlGetFail ==
  /\ pc = "dl_get"
  /\ get_issued' = TRUE
  /\ dl_result' = "error"
  /\ pc' = "dl_returned"
  /\ UNCHANGED <<settings, button, file_size, downloaded, disk, splitvars, endvars>>

(* requests.get succeeds; open(output_path, 'wb') creates the file *)
DlGetOpen ==
  /\ pc = "dl_get"
  /\ get_issued' = TRUE
  /\ input_exists' = TRUE
  /\ input_size' = 0
  /\ downloaded' = 0
  /\ pc' = "dl_stream"
  /\ UNCHANGED <<settings, button, file_size, dl_result, temp_dir, chunk_files,
                 zip_file, splitvars, endvars>>

(* a run of iterations of the iter_content loop: f.write(chunk);           *)
(* downloaded += len(chunk)                                                *)
DlWrite ==
  /\ pc = "dl_stream"
  /\ downloaded < body
  /\ LET n == Min(BatchMiB, body - downloaded) IN
       /\ input_size' = input_size + n
       /\ downloaded' = downloaded + n
  /\ UNCHANGED <<pc, settings, button, file_size, get_issued, dl_result,
                 input_exists, temp_dir, chunk_files, zip_file, splitvars, endvars>>

(* the connection breaks while streaming: except ...: return None, 0 *)
DlStreamError ==
  /\ pc = "dl_stream"
  /\ downloaded < body
  /\ dl_result' = "error"
  /\ pc' = "dl_returned"
  /\ UNCHANGED <<settings, button, file_size, get_issued, downloaded, disk,
                 splitvars, endvars>>

(* the body is exhausted: return output_path, downloaded *)
DlComplete ==
  /\ pc = "dl_stream"
  /\ downloaded = body
  /\ dl_result' = "ok"
  /\ pc' = "dl_returned"
  /\ UNCHANGED <<settings, button, file_size, get_issued, downloaded, disk,
                 splitvars, endvars>>

(* main: if not input_path: return *)
AfterDownload ==
  /\ pc = "dl_returned"
  /\ IF dl_result = "ok"
       THEN /\ pc' = "acquired"
            /\ UNCHANGED <<disk, status>>
       ELSE /\ pc' = "done"
            /\ status' = "acquire_failed"
            /\ LeaveTempDir
  /\ UNCHANGED <<settings, button, dlvars, splitvars, offered, error>>

(* ---- Quick Analysis ---- *)
Analyze ==
  /\ pc = "acquired" /\ button = "analyze"
  /\ \E d \in DurationChoices(chunk_duration) :
       /\ duration' = d
       /\ num_chunks' = IF d # 0 THEN Ceil(d, chunk_duration) ELSE num_chunks
  /\ status' = "analysis_done"
  /\ pc' = "done"
  /\ LeaveTempDir
  /\ UNCHANGED <<settings, button, dlvars, i, output_files, calls, split_returned,
                 offered, error>>

(* ---- Split Video ---- *)

(* if final_size_mb > 5000: return; else os.makedirs(output_dir) *)
SizeCheck ==
  /\ pc = "acquired" /\ button = "split"
  /\ IF input_size > ProcessLimitMB
       THEN /\ pc' = "done"
            /\ status' = "too_large"
            /\ LeaveTempDir
       ELSE /\ pc' = "split"
            /\ UNCHANGED <<disk, status>>
  /\ UNCHANGED <<settings, button, dlvars, splitvars, offered, error>>

(* split_video_ffmpeg up to the loop *)
FfmpegProbe ==
  /\ pc = "split" /\ ffmpeg_available
  /\ \E d \in DurationChoices(chunk_duration) :
       /\ duration' = d
       /\ IF d = 0
            THEN /\ pc' = "package"
                 /\ split_returned' = TRUE
                 /\ UNCHANGED num_chunks
            ELSE /\ num_chunks' = Ceil(d, chunk_duration)
                 /\ pc' = "ffmpeg_loop"
                 /\ UNCHANGED split_returned
  /\ UNCHANGED <<settings, button, dlvars, disk, i, output_files, calls, endvars>>

(* one iteration of the loop of split_video_ffmpeg *)
FfmpegSegment ==
  /\ pc = "ffmpeg_loop" /\ i < num_chunks
  /\ \E o \in FfmpegOutcomes :
       /\ calls' = Append(calls, [start |-> SegmentStart(i, chunk_duration),
                                  length |-> FfmpegLength(chunk_duration),
                                  outcome |-> o])
       /\ IF Raises(o)
            THEN \* subprocess.TimeoutExpired leaves split_video_ffmpeg and main
                 /\ error' = "TimeoutExpired"
                 /\ status' = "unhandled_error"
                 /\ pc' = "done"
                 /\ LeaveTempDir
                 /\ UNCHANGED <<i, output_files, split_returned>>
            ELSE /\ output_files' = IF FfmpegSuccess(o)
                                      THEN Append(output_files, i + 1)
                                      ELSE output_files
                 /\ chunk_files' = IF Exists(o) THEN chunk_files \cup {i + 1}
                                   ELSE chunk_files
                 /\ i' = i + 1
                 /\ pc' = IF i + 1 = num_chunks THEN "package" ELSE pc
                 /\ split_returned' = (i + 1 = num_chunks)
                 /\ UNCHANGED <<input_exists, input_size, temp_dir, zip_file,
                                status, error>>
  /\ UNCHANGED <<settings, button, dlvars, duration, num_chunks, offered>>

(* split_video_moviepy up to the loop *)
MoviepyOpen ==
  /\ pc = "split" /\ ~ffmpeg_available
  /\ \/ \* ImportError, or VideoFileClip raises: return []
        /\ pc' = "package"
        /\ split_returned' = TRUE
        /\ UNCHANGED <<duration, num_chunks>>
     \/ \E d \in DurationChoices(chunk_duration) :
          /\ duration' = d
          /\ num_chunks' = Ceil(d, chunk_duration)
          /\ pc' = IF d = 0 THEN "package" ELSE "moviepy_loop"
          /\ split_returned' = (d = 0)
  /\ UNCHANGED <<settings, button, dlvars, disk, i, output_files, calls, endvars>>

(* one iteration of the loop of split_video_moviepy *)
MoviepySegment ==
  /\ pc = "moviepy_loop" /\ i < num_chunks
  /\ \E o \in MoviepyOutcomes :
       /\ calls' = Append(calls, [start |-> SegmentStart(i, chunk_duration),
                                  length |-> MoviepyEnd(i, chunk_duration, duration)
                                               - SegmentStart(i, chunk_duration),
                                  outcome |-> o])
       /\ IF Raises(o)
            THEN \* except Exception: return []
                 /\ output_files' = <<>>
                 /\ pc' = "package"
                 /\ split_returned' = TRUE
                 /\ UNCHANGED <<i, chunk_files>>
            ELSE /\ output_files' = IF o = "ok" THEN Append(output_files, i + 1)
                                    ELSE output_files
                 /\ chunk_files' = IF o = "ok" THEN chunk_files \cup {i + 1}
                                   ELSE chunk_files
                 /\ i' = i + 1
                 /\ pc' = IF i + 1 = num_chunks THEN "package" ELSE pc
                 /\ split_returned' = (i + 1 = num_chunks)
  /\ UNCHANGED <<settings, button, dlvars, input_exists, input_size, temp_dir,
                 zip_file, duration, num_chunks, endvars>>

(* main after the split function returned: success with downloads, or the *)
(* failure message; then the temporary directory is left                  *)
Package ==
  /\ pc = "package"
  /\ IF output_files # <<>>
       THEN IF Len(output_files) > 1 /\ source # "upload"
              THEN \* uploaded_file.name with uploaded_file = None
                   /\ error' = "AttributeError"
                   /\ status' = "unhandled_error"
                   /\ UNCHANGED <<offered, zip_file>>
              ELSE /\ zip_file' = (zip_file \/ Len(output_files) > 1)
                   /\ offered' = output_files
                   /\ status' = "success"
                   /\ UNCHANGED error
       ELSE /\ status' = "full_failure"
            /\ UNCHANGED <<offered, error, zip_file>>
  /\ temp_dir' = FALSE
  /\ input_exists' = FALSE
  /\ input_size' = 0
  /\ chunk_files' = {}
  /\ pc' = "done"
  /\ UNCHANGED <<settings, button, dlvars, splitvars>>

Next ==
  \/ ClickAnalyze
  \/ ClickSplit
  \/ AcquireUpload
  \/ DlHeadFail
  \/ DlHead
  \/ DlGetFail
  \/ DlGetOpen
  \/ DlWrite
  \/ DlStreamError
  \/ DlComplete
  \/ AfterDownload
  \/ Analyze
  \/ SizeCheck
  \/ FfmpegProbe
  \/ FfmpegSegment
  \/ MoviepyOpen
  \/ MoviepySegment
  \/ Package

Spec == Init /\ [][Next]_vars

TypeOK ==
  /\ pc \in {"start", "acquire", "dl_get", "dl_stream", "dl_returned", "acquired",
             "split", "ffmpeg_loop", "moviepy_loop", "package", "done"}
  /\ i \in 0..(MaxSegs + 1)
  /\ Len(calls) <= MaxSegs + 1

(* ---- properties ---- *)

RECURSIVE SumLengths(_)
SumLengths(k) == IF k = 0 THEN 0 ELSE SumLengths(k - 1) + calls[k].length

(* the attempted segments whose tool run ended with exit 0 and an output   *)
(* file, in index order                                                    *)
RECURSIVE Succeeded(_)
Succeeded(k) ==
  IF k = 0 THEN <<>>
  ELSE IF Rc(calls[k].outcome) = 0 /\ Exists(calls[k].outcome) /\ ~Raises(calls[k].outcome)
         THEN Append(Succeeded(k - 1), k)
         ELSE Succeeded(k - 1)

SomeCallRaised == \E k \in 1..Len(calls) : Raises(calls[k].outcome)

C2_SegmentCount ==
  (duration > 0 /\ pc \in {"ffmpeg_loop", "moviepy_loop", "package", "done"}) =>
    /\ (num_chunks - 1) * chunk_duration < duration
    /\ duration <= num_chunks * chunk_duration
    /\ (duration % chunk_duration = 0 => num_chunks * chunk_duration = duration)
    /\ Len(calls) <= num_chunks
    /\ \A k \in 1..Len(calls) : calls[k].start < duration
    /\ (split_returned /\ ~SomeCallRaised) => Len(calls) = num_chunks

C2_Witness ==
  /\ split_returned
  /\ duration = 2 * chunk_duration
  /\ Len(calls) = 2
  /\ ~SomeCallRaised

(* C3: under split_video_ffmpeg a segment whose tool run exits non-zero or *)
(* leaves no output file is skipped and the loop goes on; the result is    *)
(* exactly the segments with exit 0 and an existing output file, in index  *)
(* order, and all segments are attempted.                                  *)
C3_FfmpegPartialFailure ==
  ffmpeg_available =>
    /\ output_files = Succeeded(Len(calls))
    /\ (Len(calls) > 0 /\ ~Raises(calls[Len(calls)].outcome)) =>
          IF Len(calls) < num_chunks
            THEN pc = "ffmpeg_loop" /\ i = Len(calls) /\ error = "none"
            ELSE split_returned /\ error # "TimeoutExpired"
    /\ (split_returned /\ pc = "package") => Len(calls) = num_chunks

C3_Witness ==
  /\ ffmpeg_available
  /\ pc = "package"
  /\ Len(calls) = 3
  /\ calls[1].outcome = "ok"
  /\ calls[2].outcome = "rc1_file"
  /\ calls[3].outcome = "ok"
  /\ output_files = <<1, 3>>

(* C4: under split_video_moviepy a raise at segment k is recorded for k    *)
(* only; the remaining segments are processed and the segments that        *)
(* succeeded are all in the returned result.                               *)
C4_Original ==
  (~ffmpeg_available /\ split_returned) =>
    /\ output_files = Succeeded(Len(calls))
    /\ Len(calls) = num_chunks

(* C5: a timeout of the stream-copy process for segment k is that          *)
(* segment's failure only: the loop goes on, the recorded successes stay   *)
(* in the result and the job is not aborted.                               *)
C5_Original ==
  (ffmpeg_available /\ SomeCallRaised) =>
    /\ error = "none"
    /\ status # "unhandled_error"
    /\ output_files = Succeeded(Len(calls))
    /\ Len(calls) < num_chunks => pc = "ffmpeg_loop"

(* C6: once the split phase has returned, the job ends as a reported       *)
(* success offering every successful segment when at least one segment     *)
(* succeeded, and as a reported full failure otherwise.                    *)
C6_Original ==
  (pc = "done" /\ split_returned) =>
    IF output_files # <<>>
      THEN status = "success" /\ offered = output_files
      ELSE status = "full_failure"

C8_Original ==
  source = "url" => (downloaded <= SizeLimit /\ input_size <= SizeLimit)

(* C9: when download_from_url returns a failure the destination path does  *)
(* not exist.                                                              *)
C9_Original ==
  (pc = "dl_returned" /\ dl_result \in {"error", "too_large"}) => ~input_exists

(* C10: when the job has ended, no temporary file it created is left: not  *)
(* the source copy, not a chunk output, not the ZIP archive.               *)
C10_Original ==
  pc = "done" => (~input_exists /\ chunk_files = {} /\ ~zip_file)
====
